---- MODULE Spec2Model ----
(***************************************************************************)
(* Model of gsod.py: the station directory loader (StationLoader), the     *)
(* daily weather loader (WeatherLoader) and the scalar helpers             *)
(* str_to_datetime and convert_location.                                   *)
(*                                                                         *)
(* Text is a sequence of one-character strings.  A Python value is a       *)
(* tagged record: None, a float, a bool, a str or a datetime.  A float is  *)
(* the exact rational n/d in lowest terms (binary rounding is not          *)
(* modelled), or one of inf, -inf, nan.  A dict is a function from its set *)
(* of keys.  A call returns [kind |-> "ok", ...] or a record naming the    *)
(* exception it raised.                                                    *)
(***************************************************************************)
EXTENDS Integers, Sequences, FiniteSets, TLC

VARIABLES line, wresult,                       \* parse_weather_record call
          gw_pc, gw_status, gw_content, gw_yielded, gw_raised,  \* get_weather
          st_pc, st_status, st_header, st_rows, st_field_names,
          st_idx, st_yielded, st_raised,       \* get_stations
          loc_val, loc_result                  \* convert_location call

vars == <<line, wresult,
          gw_pc, gw_status, gw_content, gw_yielded, gw_raised,
          st_pc, st_status, st_header, st_rows, st_field_names,
          st_idx, st_yielded, st_raised,
          loc_val, loc_result>>

wvars == <<line, wresult>>
gwvars == <<gw_pc, gw_status, gw_content, gw_yielded, gw_raised>>
stvars == <<st_pc, st_status, st_header, st_rows, st_field_names,
            st_idx, st_yielded, st_raised>>
locvars == <<loc_val, loc_result>>

-----------------------------------------------------------------------------
(* Python values *)

None == [t |-> "None"]
Str(s) == [t |-> "str", s |-> s]
Bool(b) == [t |-> "bool", b |-> b]
Date(y, m, d) == [t |-> "datetime", y |-> y, m |-> m, d |-> d]

Abs(x) == IF x < 0 THEN -x ELSE x

RECURSIVE Gcd(_, _)
Gcd(a, b) == IF b = 0 THEN a ELSE Gcd(b, a % b)

\* the float n/d, in lowest terms with a positive denominator
MkFloat(n, d) ==
    LET g == Gcd(Abs(n), d)
    IN  [t |-> "float", n |-> n \div g, d |-> d \div g]

FloatSpecial(name) == [t |-> "float", special |-> name]

Ok(v) == [kind |-> "ok", val |-> v]
Raise(exc, what) == [kind |-> exc, what |-> what]

-----------------------------------------------------------------------------
(* str methods *)

DigitChars == {"0", "1", "2", "3", "4", "5", "6", "7", "8", "9"}

DigitVal(c) ==
    CASE c = "0" -> 0 [] c = "1" -> 1 [] c = "2" -> 2 [] c = "3" -> 3
      [] c = "4" -> 4 [] c = "5" -> 5 [] c = "6" -> 6 [] c = "7" -> 7
      [] c = "8" -> 8 [] c = "9" -> 9

\* the white space of str.strip() and str.split() that the model's text uses
WhiteSpace == {" "}

UpperChars == <<"A", "B", "C", "D", "E", "F", "G", "H", "I", "J", "K", "L", "M",
                "N", "O", "P", "Q", "R", "S", "T", "U", "V", "W", "X", "Y", "Z">>
LowerChars == <<"a", "b", "c", "d", "e", "f", "g", "h", "i", "j", "k", "l", "m",
                "n", "o", "p", "q", "r", "s", "t", "u", "v", "w", "x", "y", "z">>

LowerChar(c) ==
    IF \E i \in 1..26 : UpperChars[i] = c
    THEN LowerChars[CHOOSE i \in 1..26 : UpperChars[i] = c]
    ELSE c

\* str.lower()
Lower(s) == [i \in 1..Len(s) |-> LowerChar(s[i])]

\* str.rstrip(chars): drop the trailing run of characters of chars
RStrip(s, chars) ==
    LET keep == {i \in 1..Len(s) : s[i] \notin chars}
    IN  IF keep = {} THEN <<>>
        ELSE SubSeq(s, 1, CHOOSE i \in keep : \A j \in keep : j <= i)

\* str.lstrip(chars): drop the leading run of characters of chars
LStrip(s, chars) ==
    LET keep == {i \in 1..Len(s) : s[i] \notin chars}
    IN  IF keep = {} THEN <<>>
        ELSE SubSeq(s, CHOOSE i \in keep : \A j \in keep : i <= j, Len(s))

\* str.strip()
Strip(s) == LStrip(RStrip(s, WhiteSpace), WhiteSpace)

IsPrefix(p, s) == Len(p) <= Len(s) /\ SubSeq(s, 1, Len(p)) = p

\* str.replace(old, new) for a non-empty old: left to right, not overlapping
RECURSIVE Replace(_, _, _)
Replace(s, old, new) ==
    IF s = <<>> THEN <<>>
    ELSE IF IsPrefix(old, s)
         THEN new \o Replace(SubSeq(s, Len(old) + 1, Len(s)), old, new)
         ELSE <<s[1]>> \o Replace(Tail(s), old, new)

\* str.split(): the maximal runs of characters that are not white space
Split(s) ==
    LET starts   == {i \in 1..Len(s) :
                        s[i] \notin WhiteSpace /\ (i = 1 \/ s[i - 1] \in WhiteSpace)}
        start(k) == CHOOSE i \in starts : Cardinality({j \in starts : j < i}) = k - 1
        end(i)   == CHOOSE j \in i..Len(s) :
                        /\ \A x \in i..j : s[x] \notin WhiteSpace
                        /\ (j = Len(s) \/ s[j + 1] \in WhiteSpace)
    IN  [k \in 1..Cardinality(starts) |-> SubSeq(s, start(k), end(start(k)))]

\* the inverse used to build input lines: tokens joined by single blanks
RECURSIVE Join(_)
Join(toks) ==
    IF toks = <<>> THEN <<>>
    ELSE IF Len(toks) = 1 THEN toks[1]
         ELSE toks[1] \o <<" ">> \o Join(Tail(toks))

AllDigits(s) == \A i \in 1..Len(s) : s[i] \in DigitChars

RECURSIVE IntOf(_)
IntOf(s) ==
    IF s = <<>> THEN 0
    ELSE 10 * IntOf(SubSeq(s, 1, Len(s) - 1)) + DigitVal(s[Len(s)])

RECURSIVE Pow10(_)
Pow10(k) == IF k = 0 THEN 1 ELSE 10 * Pow10(k - 1)

\* index of the first character of s that is in chars, 0 when there is none
FirstIn(s, chars) ==
    IF \E i \in 1..Len(s) : s[i] \in chars
    THEN CHOOSE i \in 1..Len(s) :
            s[i] \in chars /\ \A j \in 1..(i - 1) : s[j] \notin chars
    ELSE 0

RemoveChar(s, c) == SelectSeq(s, LAMBDA x : x # c)

-----------------------------------------------------------------------------
(* float(str) *)

\* an underscore of a numeric literal must stand between two digits
UnderscoresOk(s) ==
    \A i \in 1..Len(s) :
        s[i] = "_" => /\ i > 1 /\ s[i - 1] \in DigitChars
                      /\ i < Len(s) /\ s[i + 1] \in DigitChars

\* [sign] digits [. digits] [(e|E) [sign] digits], at least one mantissa digit
DecimalOf(sgn, body) ==
    LET e    == FirstIn(body, {"e", "E"})
        mant == IF e = 0 THEN body ELSE SubSeq(body, 1, e - 1)
        expo == IF e = 0 THEN <<>> ELSE SubSeq(body, e + 1, Len(body))
        esgn == IF expo # <<>> /\ expo[1] = "-" THEN -1 ELSE 1
        edig == IF expo # <<>> /\ expo[1] \in {"+", "-"} THEN Tail(expo) ELSE expo
        p    == FirstIn(mant, {"."})
        ip   == IF p = 0 THEN mant ELSE SubSeq(mant, 1, p - 1)
        fp   == IF p = 0 THEN <<>> ELSE SubSeq(mant, p + 1, Len(mant))
        k    == esgn * IntOf(edig) - Len(fp)
        m    == sgn * IntOf(ip \o fp)
    IN  IF /\ AllDigits(ip) /\ AllDigits(fp) /\ Len(ip) + Len(fp) > 0
           /\ (e # 0 => edig # <<>> /\ AllDigits(edig))
        THEN Ok(IF k >= 0 THEN MkFloat(m * Pow10(k), 1) ELSE MkFloat(m, Pow10(-k)))
        ELSE Raise("ValueError", "float")

float(str) ==
    LET s    == Strip(str)
        u    == RemoveChar(s, "_")
        sgn  == IF u # <<>> /\ u[1] = "-" THEN -1 ELSE 1
        body == IF u # <<>> /\ u[1] \in {"+", "-"} THEN Tail(u) ELSE u
        low  == Lower(body)
    IN  IF ~UnderscoresOk(s) THEN Raise("ValueError", "float")
        ELSE IF low \in {<<"i", "n", "f">>, <<"i", "n", "f", "i", "n", "i", "t", "y">>}
             THEN Ok(FloatSpecial(IF sgn = 1 THEN "inf" ELSE "-inf"))
        ELSE IF low = <<"n", "a", "n">> THEN Ok(FloatSpecial("nan"))
        ELSE DecimalOf(sgn, body)

\* float arithmetic of (value - 32) * 5 / 9
FahrenheitToCelsius(value) ==
    IF "special" \in DOMAIN value THEN value
    ELSE MkFloat((value.n - 32 * value.d) * 5, value.d * 9)

-----------------------------------------------------------------------------
(* datetime.datetime.strptime(val, '%Y%m%d') *)

At(s, i) == IF i <= Len(s) THEN s[i] ELSE "$"

\* the lengths of %m that match at position i, in the order the pattern
\* 1[0-2]|0[1-9]|[1-9] tries them
MonthLens(s, i) ==
    (IF At(s, i) = "1" /\ At(s, i + 1) \in {"0", "1", "2"} THEN <<2>> ELSE <<>>)
    \o (IF At(s, i) = "0" /\ At(s, i + 1) \in DigitChars \ {"0"} THEN <<2>> ELSE <<>>)
    \o (IF At(s, i) \in DigitChars \ {"0"} THEN <<1>> ELSE <<>>)

\* the same for %d: 3[0-1]|[1-2]\d|0[1-9]|[1-9]| [1-9]
DayLens(s, i) ==
    (IF At(s, i) = "3" /\ At(s, i + 1) \in {"0", "1"} THEN <<2>> ELSE <<>>)
    \o (IF At(s, i) \in {"1", "2"} /\ At(s, i + 1) \in DigitChars THEN <<2>> ELSE <<>>)
    \o (IF At(s, i) = "0" /\ At(s, i + 1) \in DigitChars \ {"0"} THEN <<2>> ELSE <<>>)
    \o (IF At(s, i) \in DigitChars \ {"0"} THEN <<1>> ELSE <<>>)
    \o (IF At(s, i) = " " /\ At(s, i + 1) \in DigitChars \ {"0"} THEN <<2>> ELSE <<>>)

IsLeap(y) == (y % 4 = 0 /\ y % 100 # 0) \/ y % 400 = 0

DaysInMonth(y, m) ==
    IF m = 2 THEN (IF IsLeap(y) THEN 29 ELSE 28)
    ELSE IF m \in {4, 6, 9, 11} THEN 30 ELSE 31

strptime(s) ==
    LET yok   == Len(s) >= 4 /\ AllDigits(SubSeq(s, 1, 4))
        mls   == SelectSeq(MonthLens(s, 5), LAMBDA ml : DayLens(s, 5 + ml) # <<>>)
        ml    == mls[1]
        dl    == DayLens(s, 5 + ml)[1]
        y     == IntOf(SubSeq(s, 1, 4))
        m     == IntOf(SubSeq(s, 5, 4 + ml))
        d     == IntOf(RemoveChar(SubSeq(s, 5 + ml, 4 + ml + dl), " "))
    IN  IF ~yok \/ mls = <<>> THEN Raise("ValueError", "strptime")
        ELSE IF 4 + ml + dl # Len(s) THEN Raise("ValueError", "strptime")
        ELSE IF y < 1 \/ d > DaysInMonth(y, m) THEN Raise("ValueError", "strptime")
        ELSE Ok(Date(y, m, d))

\* Python truth of a str-or-None value
Truthy(val) == val.t = "str" /\ val.s # <<>>

\* val and datetime.datetime.strptime(val, '%Y%m%d')
str_to_datetime(val) ==
    IF ~Truthy(val) THEN Ok(val) ELSE strptime(val.s)

convert_location(val) ==
    IF Truthy(val)
    THEN (IF val.s[1] = "+" THEN Str(LStrip(val.s, {"+"})) ELSE val)
    ELSE None

-----------------------------------------------------------------------------
(* dict *)

Min(a, b) == IF a <= b THEN a ELSE b

\* dict(zip(keys, vals)): zip stops at the shorter argument, and a key that
\* occurs twice keeps its last value
DictZip(keys, vals) ==
    LET n == Min(Len(keys), Len(vals))
    IN  [k \in {keys[i] : i \in 1..n} |->
            vals[CHOOSE i \in 1..n :
                    keys[i] = k /\ \A j \in (i + 1)..n : keys[j] # k]]

\* obj[k] = v
Put(obj, k, v) == [x \in DOMAIN obj \cup {k} |-> IF x = k THEN v ELSE obj[x]]

\* obj.update(other)
Update(obj, other) ==
    [x \in DOMAIN obj \cup DOMAIN other |->
        IF x \in DOMAIN other THEN other[x] ELSE obj[x]]

\* del obj[k], for a key that is present
Del(obj, k) == [x \in DOMAIN obj \ {k} |-> obj[x]]

\* field.strip() or None
StripOrNone(field) == IF Strip(field) = <<>> THEN None ELSE Str(Strip(field))

-----------------------------------------------------------------------------
(* WeatherLoader.parse_weather_record *)

field_names ==
    <<"date", "temp", "_", "dew_point", "_", "sea_level_pressure", "_",
      "station_pressure", "_", "visibility", "_", "wind_speed", "_",
      "max_wind_speed", "max_wind_gust", "max_temp", "min_temp",
      "precipitation", "snow_depth", "indicators">>

float_field_names ==
    <<"temp", "dew_point", "sea_level_pressure", "station_pressure",
      "visibility", "wind_speed", "max_wind_speed", "max_wind_gust",
      "max_temp", "min_temp", "precipitation", "snow_depth">>

temp_field_names == <<"temp", "max_temp", "min_temp">>

indicator_names == <<"fog", "rain", "snow", "hail", "thunder", "tornado">>

\* the flag characters without the letter G
FlagChars_without_G == {"*", "A", "B", "C", "D", "E", "F", "H", "I"}

\* the argument of rstrip: '*ABCDEFGHI'
FlagChars == {"*", "A", "B", "C", "D", "E", "F", "G", "H", "I"}

\* ('9999.9', '99.99', '999.9')
Sentinels == {<<"9", "9", "9", "9", ".", "9">>,
              <<"9", "9", ".", "9", "9">>,
              <<"9", "9", "9", ".", "9">>}

\* float_value with the sentinel test made before the flags are stripped
float_value_sentinel_first(raw) ==
    IF raw \in Sentinels THEN Ok(None) ELSE float(RStrip(raw, FlagChars))

\* the body of the float conversion loop for one raw token
float_value(raw) ==
    LET value == RStrip(raw, FlagChars)
    IN  IF value \in Sentinels THEN Ok(None) ELSE float(value)

\* the float conversion loop, from the i-th name of float_field_names on
RECURSIVE float_conversion(_, _)
float_conversion(obj, i) ==
    IF i > Len(float_field_names) THEN Ok(obj)
    ELSE LET name == float_field_names[i]
         IN  IF name \notin DOMAIN obj THEN Raise("KeyError", name)
             ELSE IF obj[name].t # "str" THEN Raise("AttributeError", name)
             ELSE LET r == float_value(obj[name].s)
                  IN  IF r.kind # "ok" THEN r
                      ELSE float_conversion(Put(obj, name, r.val), i + 1)

\* celsius_value with the test "if value:" in place of "if value is not None:"
celsius_value_truthy(value) ==
    IF value # None /\ value # MkFloat(0, 1) THEN FahrenheitToCelsius(value) ELSE None

\* the value stored under field_name + '_c'
celsius_value(value) ==
    IF value # None THEN FahrenheitToCelsius(value) ELSE None

CelsiusName(field_name) ==
    CASE field_name = "temp" -> "temp_c"
      [] field_name = "max_temp" -> "max_temp_c"
      [] field_name = "min_temp" -> "min_temp_c"

\* the measurement units conversion loop
RECURSIVE units_conversion(_, _)
units_conversion(obj, i) ==
    IF i > Len(temp_field_names) THEN obj
    ELSE LET field_name == temp_field_names[i]
         IN  units_conversion(
                 Put(obj, CelsiusName(field_name), celsius_value(obj[field_name])),
                 i + 1)

\* [flag == '1' for flag in indicators]
indicator_values(indicators) ==
    [i \in 1..Len(indicators) |-> Bool(indicators[i] = "1")]

\* not any(indicator_values)
weather_ok(values) == Bool(~\E i \in 1..Len(values) : values[i].b)

\* the indicator step and the finalization
parse_indicators(obj) ==
    IF "indicators" \notin DOMAIN obj THEN Raise("KeyError", "indicators")
    ELSE IF obj["indicators"].t # "str" THEN Raise("TypeError", "indicators")
    ELSE LET values        == indicator_values(obj["indicators"].s)
             indicator_obj == DictZip(indicator_names, values)
             obj1          == Put(obj, "weather_ok", weather_ok(values))
             obj2          == Update(obj1, indicator_obj)
         IN  IF "_" \notin DOMAIN obj2 THEN Raise("KeyError", "_")
             ELSE Ok(Del(obj2, "_"))

\* line.strip().split()[2:], each field stripped, zipped with field_names
base_conversion(ln) ==
    LET toks   == Split(Strip(ln))
        fields == [i \in 1..(IF Len(toks) > 2 THEN Len(toks) - 2 ELSE 0) |->
                      StripOrNone(toks[i + 2])]
    IN  DictZip(field_names, fields)

parse_weather_record(ln) ==
    LET obj == base_conversion(ln)
    IN  IF "date" \notin DOMAIN obj THEN Raise("KeyError", "date")
        ELSE LET dt == str_to_datetime(obj["date"])
             IN  IF dt.kind # "ok" THEN dt
                 ELSE LET fl == float_conversion(Put(obj, "date", dt.val), 1)
                      IN  IF fl.kind # "ok" THEN fl
                          ELSE parse_indicators(units_conversion(fl.val, 1))

-----------------------------------------------------------------------------
(* Inputs of parse_weather_record: lines of a station-year file *)

MaxSuffix == 2      \* longest run of characters appended to a numeric token
MaxIndLen == 7      \* longest indicator token
MaxTokens == 23     \* most tokens on a line

\* all texts over chars of length at most n
StringsUpTo(chars, n) == UNION {[1..k -> chars] : k \in 0..n}

\* a well-formed line: station, wban, date, and the 19 slots after the date
BaseTokens ==
    << <<"0", "1", "0", "0", "1", "0">>, <<"9", "9", "9", "9", "9">>,
       <<"2", "0", "2", "0", "0", "1", "0", "1">>,
       <<"5", "0", ".", "0">>, <<"2", "4">>,
       <<"4", "0", ".", "1">>, <<"2", "4">>,
       <<"1", "0", "1", "0", ".", "5">>, <<"2", "4">>,
       <<"1", "0", "0", "0", ".", "0">>, <<"2", "4">>,
       <<"9", ".", "9">>, <<"2", "4">>,
       <<"5", ".", "5">>, <<"2", "4">>,
       <<"1", "0", ".", "0">>, <<"1", "5", ".", "0">>,
       <<"6", "0", ".", "1", "*">>, <<"4", "0", ".", "2">>,
       <<"0", ".", "0", "0", "G">>, <<"9", "9", "9", ".", "9">>,
       <<"0", "1", "0", "0", "0", "0">> >>

\* position on the line of the token of a named slot
TokenIndex(name) == 2 + CHOOSE i \in 1..Len(field_names) : field_names[i] = name

IndicatorIndex == TokenIndex("indicators")

NumberBodies ==
    { <<"9", "9", "9", "9", ".", "9">>, <<"9", "9", ".", "9", "9">>,
      <<"9", "9", "9", ".", "9">>, <<"9", "9", "9", "9", ".", "9", "0">>,
      <<"9", "9", ".", "9">>, <<"4", "5", ".", "2">>, <<"0", ".", "0", "0">>,
      <<"3", "2", ".", "0">>, <<"-", "4", ".", "5">>, <<"1", "E", "2">>,
      <<"n", "a", "n">>, <<>> }

SuffixChars == {"*", "A", "G", "J"}

NumericTokens ==
    {b \o x : b \in NumberBodies, x \in StringsUpTo(SuffixChars, MaxSuffix)} \ {<<>>}

IndicatorTokens == StringsUpTo({"0", "1"}, MaxIndLen) \cup {<<"0", "0", "2", "x", "1", "0">>}

DateTokens ==
    { <<"2", "0", "2", "0", "0", "2", "2", "9">>, <<"2", "0", "2", "1", "0", "2", "2", "9">>,
      <<"2", "0", "2", "0", "1", "0", "1">>, <<"2", "0", "2", "0", "1", "3", "0", "1">>,
      <<"0", "0", "0", "0", "0", "1", "0", "1">>, <<"2", "0", "2", "0">>, <<"x">> }

SetToken(toks, i, t) == [toks EXCEPT ![i] = t]

\* the first n tokens of toks, padded with a filler token when toks is shorter
TakeTokens(toks, n) ==
    [i \in 1..n |-> IF i <= Len(toks) THEN toks[i] ELSE <<"x">>]

WeatherLines ==
    \* one numeric token varies
    { Join(SetToken(BaseTokens, TokenIndex(float_field_names[k]), t)) :
        k \in 1..Len(float_field_names), t \in NumericTokens }
    \cup
    \* the indicator token varies; an empty one is a line that ends before it
    { Join(IF ind = <<>>
           THEN TakeTokens(SetToken(BaseTokens, TokenIndex("temp"), t), IndicatorIndex - 1)
           ELSE SetToken(SetToken(BaseTokens, TokenIndex("temp"), t), IndicatorIndex, ind)) :
        ind \in IndicatorTokens,
        t \in {<<"5", "0", ".", "0">>, <<"9", "9", "9", "9", ".", "9">>} }
    \cup
    \* the date varies
    { Join(SetToken(BaseTokens, TokenIndex("date"), d)) : d \in DateTokens }
    \cup
    \* the number of tokens and the surrounding white space vary
    { pad \o Join(TakeTokens(BaseTokens, n)) \o pad :
        n \in 0..MaxTokens, pad \in {<<>>, <<" ", " ">>} }

-----------------------------------------------------------------------------
(* Idle values of the parts a specification does not run *)

Idle == [kind |-> "idle"]

WIdle == line = <<>> /\ wresult = Idle

GWIdle ==
    /\ gw_pc = "idle" /\ gw_status = 0 /\ gw_content = Idle
    /\ gw_yielded = <<>> /\ gw_raised = Idle

STIdle ==
    /\ st_pc = "idle" /\ st_status = 0 /\ st_header = <<>> /\ st_rows = <<>>
    /\ st_field_names = <<>> /\ st_idx = 0 /\ st_yielded = <<>> /\ st_raised = Idle

LocIdle == loc_val = Idle /\ loc_result = Idle

-----------------------------------------------------------------------------
(* Spec: one call of WeatherLoader.parse_weather_record(line) *)

NotCalled == [kind |-> "not called"]

Init ==
    /\ line \in WeatherLines
    /\ wresult = NotCalled
    /\ GWIdle /\ STIdle /\ LocIdle

ParseWeatherRecord ==
    /\ wresult = NotCalled
    /\ wresult' = parse_weather_record(line)
    /\ UNCHANGED <<line, gwvars, stvars, locvars>>

Next == ParseWeatherRecord

Spec == Init /\ [][Next]_vars

-----------------------------------------------------------------------------
(* Properties of parse_weather_record, checked under Spec *)

Called == wresult # NotCalled
Returned == wresult.kind = "ok"
Tokens == Split(Strip(line))
HasToken(name) == Len(Tokens) >= TokenIndex(name)
RawToken(name) == Tokens[TokenIndex(name)]
LastChar(s) == IF s = <<>> THEN "" ELSE s[Len(s)]

QualityLetters == {"A", "B", "C", "D", "E", "F", "G", "H", "I"}
QualityFlags == QualityLetters \cup {"*"}

\* raw without its trailing quality flags: what is left ends in no flag
Unflagged(raw) ==
    SubSeq(raw, 1, CHOOSE k \in 0..Len(raw) :
                      /\ \A i \in (k + 1)..Len(raw) : raw[i] \in QualityFlags
                      /\ (k = 0 \/ raw[k] \notin QualityFlags))

IsSentinel(s) ==
    \/ s = <<"9", "9", "9", "9", ".", "9">>
    \/ s = <<"9", "9", ".", "9", "9">>
    \/ s = <<"9", "9", "9", ".", "9">>

\* digits '.' digits
PlainDecimal(s) ==
    \E p \in 2..(Len(s) - 1) :
        /\ s[p] = "."
        /\ \A i \in 1..Len(s) : i # p => s[i] \in DigitChars

DecimalNumber(s) ==
    LET p == CHOOSE i \in 1..Len(s) : s[i] = "."
    IN  MkFloat(IntOf(RemoveChar(s, ".")), Pow10(Len(s) - p))

NumericFields == {float_field_names[k] : k \in 1..Len(float_field_names)}

\* C1: in a returned record each of the 12 numeric fields is null exactly
\* when its token without trailing quality flags is '9999.9', '99.99' or
\* '999.9', and otherwise is the number that the unflagged token denotes;
\* '9999.9' and '9999.9A' give null and '45.2A' gives 45.2.
C1_SentinelAfterStripping ==
    Returned =>
        \A name \in NumericFields :
            LET raw == RawToken(name)
                u   == Unflagged(raw)
                v   == wresult.val[name]
            IN  /\ (v = None) <=> IsSentinel(u)
                /\ (PlainDecimal(u) /\ ~IsSentinel(u)) => v = DecimalNumber(u)
                /\ raw = <<"9", "9", "9", "9", ".", "9">> => v = None
                /\ raw = <<"9", "9", "9", "9", ".", "9", "A">> => v = None
                /\ raw = <<"4", "5", ".", "2", "A">> => v = MkFloat(452, 10)

\* a flagged sentinel read as null next to a flagged number read as a number
C1_Witness ==
    /\ Returned
    /\ RawToken("temp") = <<"9", "9", "9", "9", ".", "9", "A">>
    /\ wresult.val["temp"] = None
    /\ RawToken("max_temp") = <<"6", "0", ".", "1", "*">>
    /\ wresult.val["max_temp"] = MkFloat(601, 10)

IndicatorFields == {indicator_names[k] : k \in 1..Len(indicator_names)}

\* C2: in a returned record weather_ok is true if and only if none of the
\* output fields fog, rain, snow, hail, thunder, tornado is true, whatever
\* the length of the indicator token.
C2_WeatherOkIffNoIndicator ==
    Returned =>
        (wresult.val["weather_ok"].b <=>
            ~\E name \in IndicatorFields :
                name \in DOMAIN wresult.val /\ wresult.val[name].b)

TempFields == {"temp", "max_temp", "min_temp"}

\* C3: a returned record has temp_c, max_temp_c and min_temp_c, each null
\* if and only if the Fahrenheit field it is derived from is null.
C3_CelsiusNullIffFahrenheitNull ==
    Returned =>
        \A name \in TempFields :
            /\ CelsiusName(name) \in DOMAIN wresult.val
            /\ (wresult.val[CelsiusName(name)] = None) <=> (wresult.val[name] = None)

\* a record with a null temp next to a max_temp that is a number
C3_Witness ==
    /\ Returned
    /\ wresult.val["temp"] = None /\ wresult.val["temp_c"] = None
    /\ wresult.val["max_temp"] # None /\ wresult.val["max_temp_c"] # None

\* C4: a line whose indicator token has fewer than 6 characters makes
\* parse_weather_record fail; no record is returned for it.
C4_ShortIndicatorFails ==
    (Called /\ HasToken("indicators") /\ Len(RawToken("indicators")) < 6)
        => ~Returned

PrecipitationIsZeroG ==
    HasToken("precipitation") /\ RawToken("precipitation") = <<"0", ".", "0", "0", "G">>

\* the rest of the line is well formed: all tokens present, a valid date,
\* every other numeric token a sentinel or a number
RestWellFormed ==
    /\ HasToken("indicators")
    /\ strptime(RawToken("date")).kind = "ok"
    /\ \A name \in NumericFields \ {"precipitation"} :
           float_value(RawToken(name)).kind = "ok"

\* C5 as stated: a precipitation token '0.00G' keeps its 'G', and the call
\* fails with a numeric parse error instead of returning a record.
C5_ZeroGIsNumericError ==
    (Called /\ PrecipitationIsZeroG /\ RestWellFormed) => wresult.kind = "ValueError"

\* C5 (amended): 'G' is one of the flags A to I, so a precipitation token
\* '0.00G' is stripped to '0.00': every record returned for such a line
\* has precipitation 0.0, and a line that is otherwise well formed is
\* parsed successfully.
C5_ZeroGIsZero ==
    (Called /\ PrecipitationIsZeroG) =>
        /\ Returned => wresult.val["precipitation"] = MkFloat(0, 1)
        /\ RestWellFormed => Returned

C5_Witness ==
    /\ Called /\ PrecipitationIsZeroG /\ RestWellFormed /\ Returned
    /\ wresult.val["precipitation"] = MkFloat(0, 1)

\* C10: the flag alphabet is per field; a numeric token that ends in a
\* letter A to I and is not the precipitation token, or that ends in '*'
\* and is not the max_temp or min_temp token, is not stripped and so is
\* not accepted: no record is returned.
C10_PerFieldAlphabet ==
    Called =>
        \A name \in NumericFields :
            (/\ HasToken(name)
             /\ \/ name # "precipitation" /\ LastChar(RawToken(name)) \in QualityLetters
                \/ name \notin {"max_temp", "min_temp"} /\ LastChar(RawToken(name)) = "*")
            => ~Returned

-----------------------------------------------------------------------------
(* SpecGetWeather: WeatherLoader.get_weather(usaf, wban, year)             *)
(*                                                                         *)
(* h.request returns the status and the body of the response; the body is  *)
(* a bytes object, here the lines of the archive it compresses.  The       *)
(* generator runs up to io.StringIO(content), which accepts only str.      *)

MaxArchiveLines == 3     \* most lines of an archive after its header line

HttpStatuses == {200, 404}

ArchiveHeaderLine == <<"S", "T", "N", " ", "W", "B", "A", "N", " ", "Y", "E", "A", "R">>

ArchiveLines ==
    { Join(BaseTokens),
      Join(SetToken(BaseTokens, TokenIndex("temp"), <<"9", "9", "9", "9", ".", "9">>)),
      Join(SetToken(BaseTokens, TokenIndex("date"), <<"x">>)) }

Bytes(data) == [type |-> "bytes", data |-> data]

\* io.StringIO(initial_value): TypeError unless initial_value is a str
StringIO(initial_value) ==
    IF initial_value.type = "str" THEN Ok(initial_value)
    ELSE Raise("TypeError", "initial_value must be str or None, not bytes")

InitGetWeather ==
    /\ gw_pc = "request"
    /\ gw_status \in HttpStatuses
    /\ gw_content \in {Bytes(<<ArchiveHeaderLine>> \o b) :
                          b \in UNION {[1..n -> ArchiveLines] : n \in 0..MaxArchiveLines}}
    /\ gw_yielded = <<>>
    /\ gw_raised = Idle
    /\ WIdle /\ STIdle /\ LocIdle

\* resp, content = h.request(url); a status other than 200 ends the generator
GW_Request ==
    /\ gw_pc = "request"
    /\ gw_pc' = IF gw_status # 200 THEN "returned" ELSE "gunzip"
    /\ UNCHANGED <<gw_status, gw_content, gw_yielded, gw_raised, wvars, stvars, locvars>>

\* gz = gzip.GzipFile(fileobj=StringIO(content)): StringIO raises on bytes
GW_Gunzip ==
    /\ gw_pc = "gunzip"
    /\ StringIO(gw_content).kind # "ok"
    /\ gw_pc' = "raised"
    /\ gw_raised' = StringIO(gw_content)
    /\ UNCHANGED <<gw_status, gw_content, gw_yielded, wvars, stvars, locvars>>

NextGetWeather == GW_Request \/ GW_Gunzip

SpecGetWeather == InitGetWeather /\ [][NextGetWeather]_vars

GW_Finished == gw_pc \in {"returned", "raised"}

\* the archive lines after the skipped header line
GW_Body == SubSeq(gw_content.data, 2, Len(gw_content.data))

\* index in GW_Body of the first line that does not parse, or one past the end
GW_FirstBad ==
    CHOOSE n \in 1..(Len(GW_Body) + 1) :
        /\ \A i \in 1..(n - 1) : parse_weather_record(GW_Body[i]).kind = "ok"
        /\ n <= Len(GW_Body) => parse_weather_record(GW_Body[n]).kind # "ok"

\* C9: get_weather yields one record per archive line after the header,
\* in input order; when line N fails to parse, the records of lines 1..N-1
\* have been yielded, nothing is yielded for line N or later, and the error
\* of line N is raised to the caller.
C9_OneRecordPerLineUntilError ==
    (GW_Finished /\ gw_status = 200) =>
        /\ gw_yielded = [i \in 1..(GW_FirstBad - 1) |-> parse_weather_record(GW_Body[i]).val]
        /\ (gw_pc = "raised") <=> (GW_FirstBad <= Len(GW_Body))
        /\ gw_pc = "raised" => gw_raised = parse_weather_record(GW_Body[GW_FirstBad])

-----------------------------------------------------------------------------
(* StationLoader *)

\* name.lower().replace(' ', '_').replace('(.1m)', '')
field_name(name) ==
    Replace(Replace(Lower(name), <<" ">>, <<"_">>), <<"(", ".", "1", "m", ")">>, <<>>)

get_field_names(header) == [i \in 1..Len(header) |-> field_name(header[i])]

K_lat == <<"l", "a", "t">>
K_lon == <<"l", "o", "n">>
K_elev_m == <<"e", "l", "e", "v", "(", "m", ")">>
K_begin == <<"b", "e", "g", "i", "n">>
K_end == <<"e", "n", "d">>

\* the keys postprocess rewrites, in its order, with the conversion of each
PostprocessSteps ==
    << <<K_lat, "location">>, <<K_lon, "location">>, <<K_elev_m, "location">>,
       <<K_begin, "datetime">>, <<K_end, "datetime">> >>

RECURSIVE postprocess_from(_, _)
postprocess_from(obj, i) ==
    IF i > Len(PostprocessSteps) THEN Ok(obj)
    ELSE LET key == PostprocessSteps[i][1]
             r   == IF PostprocessSteps[i][2] = "location"
                    THEN Ok(convert_location(obj[key]))
                    ELSE str_to_datetime(obj[key])
         IN  IF key \notin DOMAIN obj THEN Raise("KeyError", key)
             ELSE IF r.kind # "ok" THEN r
             ELSE postprocess_from(Put(obj, key, r.val), i + 1)

postprocess(obj) == postprocess_from(obj, 1)

\* the body of the loop over the rows of the reader
station_of(names, fields) ==
    postprocess(DictZip(names, [i \in 1..Len(fields) |-> StripOrNone(fields[i])]))

-----------------------------------------------------------------------------
(* SpecStations: StationLoader.get_stations(url)                           *)
(*                                                                         *)
(* st_rows is what csv.reader yields for the response body: the header row *)
(* first, then one list of cells per line (an empty list for a blank line).*)

MaxRows == 2        \* most rows after the header in a document of several rows

HeaderA ==
    << <<"S", "T", "N">>, <<"L", "A", "T">>, <<"L", "O", "N">>,
       <<"E", "L", "E", "V", "(", ".", "1", "M", ")">>,
       <<"B", "E", "G", "I", "N">>, <<"E", "N", "D">> >>

RowA ==
    << <<"+", "1", "2", "3", "4", "5">>, <<"+", "3", "4", "5", "6", "7">>,
       <<"-", "9", "9", "9", "9", "9">>, <<"+", "0", "0", "1", "2", "3">>,
       <<"1", "9", "5", "0", "0", "1", "0", "1">>,
       <<"2", "0", "2", "0", "1", "2", "3", "1">> >>

HeaderM ==
    << <<"U", "S", "A", "F">>, <<"S", "T", "A", "T", "I", "O", "N", " ", "N", "A", "M", "E">>,
       <<"L", "A", "T">>, <<"L", "O", "N">>, <<"E", "L", "E", "V", "(", "M", ")">>,
       <<"B", "E", "G", "I", "N">>, <<"E", "N", "D">> >>

RowM ==
    << <<"0", "1", "0", "0", "1", "0">>, <<"O", "S", "L", "O", " ", "A", "P">>,
       <<"+", "5", "9", ".", "9">>, <<"+", "0", "1", "0", ".", "7">>,
       <<"+", "0", "0", "1", "2", ".", "0">>,
       <<"1", "9", "5", "0", "0", "1", "0", "1">>,
       <<"2", "0", "2", "0", "1", "2", "3", "1">> >>

\* the modern layout followed by a column, and by a second LAT column
HeaderT == SubSeq(HeaderM, 3, 7) \o << <<"C", "T", "R", "Y">> >>
RowT == SubSeq(RowM, 3, 7) \o << <<"N", "O">> >>
HeaderD == SubSeq(HeaderM, 3, 7) \o << <<"L", "A", "T">> >>
RowD == SubSeq(RowM, 3, 7) \o << <<"-", "1", ".", "5">> >>

Layouts == { <<HeaderA, RowA>>, <<HeaderM, RowM>>, <<HeaderT, RowT>>, <<HeaderD, RowD>> }

CellVariants ==
    { <<>>, <<" ">>, <<"+">>, <<"+", "+", "5">>, <<" ", "+", "7", " ">>,
      <<"2", "0", "2", "0", "1", "3", "0", "1">>, <<"2", "0", "2", "0", "1", "0", "1">> }

\* a row with one cell changed, or cut or extended to n cells
RowVariants(row) ==
    { SetToken(row, i, c) : i \in 1..Len(row), c \in CellVariants }
    \cup { TakeTokens(row, n) : n \in 0..(Len(row) + 1) }

\* the rows used in documents of several rows
FewRows(row) ==
    { row, TakeTokens(row, Len(row) - 1), <<>>,
      SetToken(row, Len(row) - 1, <<"x">>) }

StationDocuments ==
    UNION { { <<lay[1]>> \o <<r>> : r \in RowVariants(lay[2]) }
            \cup { <<lay[1]>> \o rs :
                     rs \in UNION {[1..n -> FewRows(lay[2])] : n \in 0..MaxRows} }
          : lay \in Layouts }
    \cup { <<>> }

InitStations ==
    /\ st_pc = "request"
    /\ st_status \in HttpStatuses
    /\ st_rows \in StationDocuments
    /\ st_header = <<>>
    /\ st_field_names = <<>>
    /\ st_idx = 1
    /\ st_yielded = <<>>
    /\ st_raised = Idle
    /\ WIdle /\ GWIdle /\ LocIdle

\* resp, content = h.request(url); RuntimeError unless the status is 200
ST_Request ==
    /\ st_pc = "request"
    /\ IF st_status # 200
       THEN st_pc' = "raised" /\ st_raised' = Raise("RuntimeError", "not found")
       ELSE st_pc' = "header" /\ UNCHANGED st_raised
    /\ UNCHANGED <<st_status, st_header, st_rows, st_field_names, st_idx, st_yielded,
                   wvars, gwvars, locvars>>

\* header = next(reader); field_names = self.get_field_names(header)
ST_Header ==
    /\ st_pc = "header"
    /\ st_rows # <<>>
    /\ st_header' = st_rows[1]
    /\ st_field_names' = get_field_names(st_rows[1])
    /\ st_idx' = 2
    /\ st_pc' = "rows"
    /\ UNCHANGED <<st_status, st_rows, st_yielded, st_raised, wvars, gwvars, locvars>>

\* next(reader) on a body without lines raises StopIteration inside the
\* generator: a RuntimeError from Python 3.7 on, the silent end of the
\* generator before
ST_NoHeader ==
    /\ st_pc = "header"
    /\ st_rows = <<>>
    /\ \/ st_pc' = "raised" /\ st_raised' = Raise("RuntimeError", "StopIteration")
       \/ st_pc' = "returned" /\ UNCHANGED st_raised
    /\ UNCHANGED <<st_status, st_header, st_rows, st_field_names, st_idx, st_yielded,
                   wvars, gwvars, locvars>>

\* one turn of "for fields in reader": the record is yielded, or the
\* exception of postprocess ends the generator
ST_Row ==
    /\ st_pc = "rows"
    /\ st_idx <= Len(st_rows)
    /\ LET r == station_of(st_field_names, st_rows[st_idx])
       IN  IF r.kind = "ok"
           THEN /\ st_yielded' = Append(st_yielded, r.val)
                /\ st_idx' = st_idx + 1
                /\ UNCHANGED <<st_pc, st_raised>>
           ELSE /\ st_pc' = "raised"
                /\ st_raised' = r
                /\ UNCHANGED <<st_yielded, st_idx>>
    /\ UNCHANGED <<st_status, st_header, st_rows, st_field_names, wvars, gwvars, locvars>>

\* the reader is exhausted
ST_Finish ==
    /\ st_pc = "rows"
    /\ st_idx > Len(st_rows)
    /\ st_pc' = "returned"
    /\ UNCHANGED <<st_status, st_header, st_rows, st_field_names, st_idx, st_yielded,
                   st_raised, wvars, gwvars, locvars>>

NextStations == ST_Request \/ ST_Header \/ ST_NoHeader \/ ST_Row \/ ST_Finish

SpecStations == InitStations /\ [][NextStations]_vars

\* the row from which the k-th yielded record was made
YieldedRow(k) == st_rows[k + 1]

\* C6: a row with fewer cells than the header makes the station parser
\* fail; no station record is ever yielded for such a row.
C6_ShortRowFails ==
    \A k \in 1..Len(st_yielded) : Len(YieldedRow(k)) >= Len(st_header)

NormalizedName(name) ==
    LET low == [i \in 1..Len(name) |-> IF name[i] = " " THEN "_" ELSE LowerChar(name[i])]
    IN  Replace(low, <<"(", ".", "1", "m", ")">>, <<>>)

ScenarioAKeys ==
    { <<"s", "t", "n">>, <<"l", "a", "t">>, <<"l", "o", "n">>, <<"e", "l", "e", "v">>,
      <<"b", "e", "g", "i", "n">>, <<"e", "n", "d">> }

\* C7: a row with as many cells as the header gives a station record whose
\* field set is exactly the normalized header names; the header STN, LAT,
\* LON, ELEV(.1M), BEGIN, END with its six-cell row gives a record with
\* the keys stn, lat, lon, elev, begin, end.
C7_FieldSetIsHeaderNames ==
    /\ \A k \in 1..Len(st_yielded) :
           Len(YieldedRow(k)) = Len(st_header) =>
               DOMAIN st_yielded[k] = {NormalizedName(st_header[i]) : i \in 1..Len(st_header)}
    /\ (st_pc \in {"returned", "raised"} /\ st_header = HeaderA
            /\ Len(st_rows) >= 2 /\ st_rows[2] = RowA) =>
           (Len(st_yielded) >= 1 /\ DOMAIN st_yielded[1] = ScenarioAKeys)

-----------------------------------------------------------------------------
(* SpecLocation: one call of convert_location(val) *)

MaxLocLen == 3      \* longest text given to convert_location

LocChars == {"+", "-", "1", "."}

InitLocation ==
    /\ loc_val \in {None} \cup {Str(x) : x \in StringsUpTo(LocChars, MaxLocLen)}
    /\ loc_result = NotCalled
    /\ WIdle /\ GWIdle /\ STIdle

ConvertLocation ==
    /\ loc_result = NotCalled
    /\ loc_result' = convert_location(loc_val)
    /\ UNCHANGED <<loc_val, wvars, gwvars, stvars>>

NextLocation == ConvertLocation

SpecLocation == InitLocation /\ [][NextLocation]_vars

\* C8: convert_location removes exactly one leading '+' of a non-empty
\* token that starts with '+', so convert_location('+' + t) = t also when t
\* starts with '+', and returns every other non-empty token unchanged.
C8_StripsOnePlus ==
    (loc_result # NotCalled /\ Truthy(loc_val)) =>
        IF loc_val.s[1] = "+"
        THEN loc_result = Str(Tail(loc_val.s))
        ELSE loc_result = loc_val

====
